---- MODULE Spec2Model ----
(***************************************************************************)
(* The knowledge pipeline of the clinic backend: upload and background     *)
(* ingestion of PDF documents (knowledgeBaseController), their deletion,   *)
(* and the chat query handler with its conversation store                  *)
(* (chatbotController), over the KnowledgeBase and Conversation            *)
(* collections, the upload directory and the Pinecone index.               *)
(*                                                                         *)
(* Every action is one turn of the Node event loop: it receives the result *)
(* of the call its handler was awaiting (applying that call's effect, or   *)
(* taking its error), runs the handler's code up to the next await, and    *)
(* leaves the handler waiting there.  An external call that returns an     *)
(* error has had no effect.                                                *)
(***************************************************************************)
EXTENDS Integers, Sequences, FiniteSets, TLC

(* ------------------------------ bounds -------------------------------- *)
MaxUploads == 2
MaxDeletes == 1
MaxQueries == 1
MaxTextLen == 7
MaxSessionQueries == 2

UploadIds == 1..MaxUploads
DeleteIds == 1..MaxDeletes
QueryIds == 1..MaxQueries
SessionQueryIds == 1..MaxSessionQueries

(* --------------------------- program constants ------------------------ *)
ChatbotTypes == {"general", "urogynaecology", "aesthetic", "menopause"}

DefaultMaxTokens == 500
DefaultOverlap == 50
IngestMaxTokens == 500
IngestOverlap == 50
EmbeddingBatchSize == 2048
UpsertBatchSize == 100
TopK == 5

(* ------------------------------ inputs -------------------------------- *)
\* Topic scopes a request may carry: two of the enumerated ones and one
\* that is not enumerated.
ScopeInputs == {"general", "menopause", "other"}
OriginalNames == {"a.pdf"}
\* What pdf-parse makes of an uploaded file: it throws, or yields a text.
PdfTexts == {<< >>, <<" ">>, <<"a", ".">>}
PdfContents == {[parses |-> FALSE, text |-> << >>]} \cup
               {[parses |-> TRUE, text |-> t] : t \in PdfTexts}
\* The readable, non-blank ones.
ChatPdfContents == {[parses |-> TRUE, text |-> <<"a", ".">>]}
MimeTypes == {"application/pdf", "text/plain"}
\* Bodies of POST /chatbot/query: message, sessionId ("" for none) and
\* conversationHistory.
QueryMessages == {<< >>, <<" ">>, <<"q">>}
SessionIds == {"", "s1"}
Histories == {<< >>, <<[role |-> "user", content |-> <<"h">>], [role |-> "assistant", content |-> <<"i">>]>>}

\* Arguments of chunkText: the texts over a letter, the space and the full
\* stop, and the two options (0 for an absent one).
ChunkAlphabet == {"a", " ", "."}
ChunkTexts == UNION {[1..n -> ChunkAlphabet] : n \in 0..MaxTextLen}
ChunkMaxTokens == {0, 1, 2}
ChunkOverlaps == {0, 1, 2}

(* ------------------------ strings (as sequences) ---------------------- *)
IsWs(c) == c \in {" ", "\n", "\t"}
IsTerm(c) == c \in {".", "!", "?"}

RECURSIVE DropWs(_)
DropWs(s) == IF s # << >> /\ IsWs(Head(s)) THEN DropWs(Tail(s)) ELSE s

\* text.replace(/\s+/g, " ")
RECURSIVE CollapseWs(_)
CollapseWs(s) ==
  IF s = << >> THEN << >>
  ELSE IF IsWs(Head(s)) THEN <<" ">> \o CollapseWs(DropWs(Tail(s)))
  ELSE <<Head(s)>> \o CollapseWs(Tail(s))

RECURSIVE DropNl(_)
DropNl(s) == IF s # << >> /\ Head(s) = "\n" THEN DropNl(Tail(s)) ELSE s

\* text.replace(/\n+/g, "\n")
RECURSIVE CollapseNl(_)
CollapseNl(s) ==
  IF s = << >> THEN << >>
  ELSE IF Head(s) = "\n" THEN <<"\n">> \o CollapseNl(DropNl(Tail(s)))
  ELSE <<Head(s)>> \o CollapseNl(Tail(s))

RECURSIVE Reverse(_)
Reverse(s) == IF s = << >> THEN << >> ELSE Reverse(Tail(s)) \o <<Head(s)>>

\* String.prototype.trim
Trim(s) == Reverse(DropWs(Reverse(DropWs(s))))

\* length of the longest prefix of s whose characters all satisfy P
RECURSIVE RunLen(_, _)
RunLen(s, term) ==
  IF s = << >> \/ IsTerm(Head(s)) # term THEN 0 ELSE 1 + RunLen(Tail(s), term)

\* cleanedText.match(/[^.!?]+[.!?]+/g): the successive non-overlapping
\* matches, each a maximal run of non-terminators followed by a maximal run
\* of terminators (<< >> stands for null: no match).
RECURSIVE MatchSentences(_)
MatchSentences(s) ==
  IF s = << >> THEN << >>
  ELSE IF IsTerm(Head(s)) THEN MatchSentences(Tail(s))
  ELSE LET n == RunLen(s, FALSE)
           rest == SubSeq(s, n + 1, Len(s))
       IN IF rest = << >> THEN << >>
          ELSE LET m == RunLen(rest, TRUE)
               IN <<SubSeq(s, 1, n + m)>> \o
                  MatchSentences(SubSeq(rest, m + 1, Len(rest)))

\* str.split(" ")
RECURSIVE SplitSpace(_)
SplitSpace(s) ==
  IF \A i \in 1..Len(s) : s[i] # " " THEN <<s>>
  ELSE LET k == CHOOSE i \in 1..Len(s) :
                  s[i] = " " /\ \A j \in 1..(i - 1) : s[j] # " "
       IN <<SubSeq(s, 1, k - 1)>> \o SplitSpace(SubSeq(s, k + 1, Len(s)))

\* words.join(" ")
RECURSIVE JoinSpace(_)
JoinSpace(ws) ==
  IF ws = << >> THEN << >>
  ELSE IF Len(ws) = 1 THEN ws[1]
  ELSE ws[1] \o <<" ">> \o JoinSpace(Tail(ws))

\* A slice that takes the first n words.
LastNFirst(ws, n) == IF Len(ws) <= n THEN ws ELSE SubSeq(ws, 1, n)

\* arr.slice(-n) for n > 0
LastN(ws, n) == IF Len(ws) <= n THEN ws ELSE SubSeq(ws, Len(ws) - n + 1, Len(ws))

\* openaiService.countTokens: Math.ceil(text.length / 4)
countTokens(text) == (Len(text) + 3) \div 4

(* ----------------------------- chunkText ------------------------------ *)
\* One iteration of chunkText's loop over the sentences; st holds the loop's
\* locals chunks, currentChunk, currentTokenCount and chunkIndex.
ChunkStep(st, sentence, maxTokens, overlap) ==
  LET sentenceTokens == countTokens(sentence) IN
  IF st.currentTokenCount + sentenceTokens > maxTokens /\ Len(st.currentChunk) > 0
  THEN LET words == SplitSpace(st.currentChunk)
           overlapWords == LastN(words, overlap)
           next == JoinSpace(overlapWords) \o <<" ">> \o sentence
       IN [chunks |-> Append(st.chunks, [text |-> Trim(st.currentChunk),
                                          index |-> st.chunkIndex,
                                          tokenCount |-> st.currentTokenCount]),
           currentChunk |-> next,
           currentTokenCount |-> countTokens(next),
           chunkIndex |-> st.chunkIndex + 1]
  ELSE [st EXCEPT !.currentChunk = st.currentChunk \o <<" ">> \o sentence,
                  !.currentTokenCount = st.currentTokenCount + sentenceTokens]

RECURSIVE ChunkLoop(_, _, _, _)
ChunkLoop(st, sentences, maxTokens, overlap) ==
  IF sentences = << >> THEN st
  ELSE ChunkLoop(ChunkStep(st, Head(sentences), maxTokens, overlap),
                 Tail(sentences), maxTokens, overlap)

\* pdfProcessorService.chunkText; an option of 0 stands for an absent one
\* (options?.maxTokens || 500 takes the default for both).
chunkText(text, optMaxTokens, optOverlap) ==
  LET maxTokens == IF optMaxTokens = 0 THEN DefaultMaxTokens ELSE optMaxTokens
      overlap == IF optOverlap = 0 THEN DefaultOverlap ELSE optOverlap
      cleanedText == Trim(CollapseNl(CollapseWs(text)))
      matched == MatchSentences(cleanedText)
      sentences == IF matched = << >> THEN <<cleanedText>> ELSE matched
      st == ChunkLoop([chunks |-> << >>, currentChunk |-> << >>,
                       currentTokenCount |-> 0, chunkIndex |-> 0],
                      sentences, maxTokens, overlap)
  IN IF Len(Trim(st.currentChunk)) > 0
     THEN Append(st.chunks, [text |-> Trim(st.currentChunk),
                             index |-> st.chunkIndex,
                             tokenCount |-> st.currentTokenCount])
     ELSE st.chunks

(* ------------------------------- state -------------------------------- *)
VARIABLES
  kb,            \* KnowledgeBase collection: document id -> record
  disk,          \* upload directory: file path -> the text pdf-parse reads from it
  pinecone,      \* the index: a set of vector records, one per (namespace, id)
  uploads,       \* upload request -> the HTTP response it was given
  ingest,        \* document id -> its processKnowledgeBaseAsync task
  deletes,       \* delete request -> its handler's locals and response
  queries,       \* chat query request -> its handler's locals and response
  conversations, \* Conversation collection: sessionId -> record
  exited,        \* the process has exited (process.exit(1) on unhandledRejection)
  chunker        \* a call of chunkText: its arguments and, once returned, its result

vars == <<kb, disk, pinecone, uploads, ingest, deletes, queries, conversations, exited, chunker>>

NoResp == [code |-> 0]

\* `chatbot-${chatbotType}`
Namespace(chatbotType) == <<"chatbot-", chatbotType>>

\* multer's storage.filename: uniqueSuffix + "-" + file.originalname, under
\* the upload directory; the unique suffix is rendered from the request.
StoredPath(u, originalname) == <<"uploads/knowledge-base/", ToString(u), "-", originalname>>

\* path.basename
Basename(filePath) == Tail(filePath)

\* A vector id made of the chunk index alone.
VectorIdByIndex(documentId, index) == <<"chunk-", ToString(index)>>

\* `${documentId}-chunk-${chunk.index}`
VectorId(documentId, index) == <<ToString(documentId), "-chunk-", ToString(index)>>

\* The embedding the provider returns for a text: a function of the text.
Embedding(text) == <<"embedding", text>>

\* Model.findByIdAndUpdate(id, update): no document, no change.
FindByIdAndUpdate(coll, id, update) ==
  IF id \in DOMAIN coll
  THEN [coll EXCEPT ![id] = [f \in DOMAIN @ |-> IF f \in DOMAIN update THEN update[f] ELSE @[f]]]
  ELSE coll

\* Model.findByIdAndDelete(id)
FindByIdAndDelete(coll, id) == [d \in (DOMAIN coll) \ {id} |-> coll[d]]

\* new KnowledgeBase({...}) in uploadKnowledgeBase, with the schema's defaults
NewKnowledgeBase(chatbotType, originalname, path, mimetype) ==
  [chatbotType |-> chatbotType,
   fileName |-> originalname,
   fileUrl |-> path,
   mimeType |-> mimetype,
   status |-> "pending",
   chunkCount |-> 0,
   errorMessage |-> "",
   processedAt |-> FALSE,
   pineconeNamespace |-> Namespace(chatbotType)]

\* A response sent only after the ingestion, reporting its outcome.
UploadAcceptedAfterIngestion(id, doc) ==
  [code |-> 200,
   body |-> [success |-> TRUE,
             data |-> [id |-> id, fileName |-> doc.fileName,
                       status |-> "completed", chatbotType |-> doc.chatbotType]]]

\* The 202 response of uploadKnowledgeBase, built from the saved document.
UploadAccepted(id, doc) ==
  [code |-> 202,
   body |-> [success |-> TRUE,
             data |-> [id |-> id, fileName |-> doc.fileName,
                       status |-> doc.status, chatbotType |-> doc.chatbotType]]]

ErrorResponse(code, message) ==
  [code |-> code, body |-> [success |-> FALSE, message |-> message]]

ErrorResponse500(message, error) ==
  [code |-> 500, body |-> [success |-> FALSE, message |-> message, error |-> error]]

IdleTask ==
  [pc |-> "idle", filePath |-> << >>, chatbotType |-> "", namespace |-> << >>,
   dataBuffer |-> [parses |-> FALSE, text |-> << >>], parsed |-> FALSE,
   chunks |-> << >>, embeddings |-> << >>, vectors |-> << >>, pos |-> 0,
   error |-> "", embedCalls |-> 0, upsertCalls |-> 0]

IdleDelete == [pc |-> "idle", id |-> 0, namespace |-> << >>, resp |-> NoResp]

IdleQuery ==
  [pc |-> "idle", message |-> << >>, chatbotType |-> "", sessionId |-> "",
   conversationHistory |-> << >>, hasKnowledgeBase |-> {},
   similarVectors |-> << >>, relevantChunks |-> << >>, sources |-> << >>,
   messages |-> << >>, response |-> [completionOf |-> << >>],
   conversation |-> [isNew |-> FALSE, chatbotType |-> "", messages |-> << >>,
                     lastMessageAt |-> 0],
   resp |-> NoResp,
   error |-> "", saveError |-> "", checked |-> FALSE, completedAtCheck |-> {},
   embedCalls |-> 0, vectorQueries |-> 0, completionCalls |-> 0, saved |-> FALSE]

IdleChunker ==
  [pc |-> "idle", text |-> << >>, maxTokens |-> 0, overlap |-> 0, chunks |-> << >>]

Init ==
  /\ kb = << >>
  /\ disk = << >>
  /\ pinecone = {}
  /\ uploads = [u \in UploadIds |-> NoResp]
  /\ ingest = [u \in UploadIds |-> IdleTask]
  /\ deletes = [r \in DeleteIds |-> IdleDelete]
  /\ queries = [q \in QueryIds |-> IdleQuery]
  /\ conversations = << >>
  /\ exited = FALSE
  /\ chunker = IdleChunker

(* ------------------------- uploadKnowledgeBase ------------------------ *)
\* POST /knowledge-base/upload: multer's fileFilter and disk storage, then
\* the controller up to its response.  The first await of the task started
\* by processKnowledgeBaseAsync(...) is left pending.
UploadKnowledgeBase(u, hasFile, originalname, mimetype, content, chatbotType, saved) ==
  /\ ~exited
  /\ uploads[u] = NoResp
  /\ \A v \in UploadIds : v < u => uploads[v] # NoResp
  /\ LET path == StoredPath(u, originalname) IN
     IF hasFile /\ mimetype # "application/pdf"
     THEN \* fileFilter: cb(new Error(...)), answered by the global error handler
          /\ uploads' = [uploads EXCEPT ![u] = ErrorResponse(500, "Only PDF files are allowed")]
          /\ UNCHANGED <<kb, disk, ingest>>
     ELSE IF ~hasFile
     THEN /\ uploads' = [uploads EXCEPT ![u] = ErrorResponse(400, "No file uploaded")]
          /\ UNCHANGED <<kb, disk, ingest>>
     ELSE IF chatbotType \notin ChatbotTypes
     THEN /\ disk' = (path :> content) @@ disk
          /\ uploads' = [uploads EXCEPT ![u] = ErrorResponse(400, "Invalid chatbot type")]
          /\ UNCHANGED <<kb, ingest>>
     ELSE LET doc == NewKnowledgeBase(chatbotType, originalname, path, mimetype) IN
          /\ disk' = (path :> content) @@ disk
          /\ IF saved
             THEN /\ kb' = (u :> doc) @@ kb
                  /\ ingest' = [ingest EXCEPT ![u] =
                       [@ EXCEPT !.pc = "markProcessing", !.filePath = path,
                                 !.chatbotType = chatbotType,
                                 !.namespace = Namespace(chatbotType)]]
                  /\ uploads' = [uploads EXCEPT ![u] = UploadAccepted(u, doc)]
             ELSE /\ uploads' = [uploads EXCEPT ![u] =
                       ErrorResponse500("Failed to upload knowledge base", "MongoError")]
                  /\ UNCHANGED <<kb, ingest>>
  /\ UNCHANGED <<pinecone, deletes, queries, conversations, exited, chunker>>

(* ---------------------- processKnowledgeBaseAsync --------------------- *)
\* A catch block that puts the document back for another attempt.
FailedUpdateResets(message) == [status |-> "pending", errorMessage |-> message]

\* A catch block that records a fixed text instead of the error's message.
FailedUpdateFixedMessage(message) == [status |-> "failed", errorMessage |-> "Processing failed"]

\* A catch block that also drops the document's reference to its file.
FailedUpdateDropsFile(message) ==
  [status |-> "failed", errorMessage |-> message, fileUrl |-> << >>]

\* The update written by the catch block.
FailedUpdate(message) == [status |-> "failed", errorMessage |-> message]

\* An update that records the chunk count and leaves the status as it is.
CompletedUpdateCountOnly(chunks) == [chunkCount |-> Len(chunks)]

\* The update written after the upsert.
CompletedUpdate(chunks) ==
  [status |-> "completed", processedAt |-> TRUE, chunkCount |-> Len(chunks)]

\* An error that is logged and not thrown: the task goes on to its final update.
CaughtGoesOn(task, message) == [task EXCEPT !.pc = "markCompleted", !.error = message]

\* An error thrown inside the try block: the catch block runs and awaits its
\* update.
Caught(task, message) == [task EXCEPT !.pc = "markFailed", !.error = message]

\* processPDF without its two checks.
ProcessPDFUnchecked(text) ==
  [error |-> "", chunks |-> chunkText(text, IngestMaxTokens, IngestOverlap)]

\* processPDF after the text is extracted: the error it throws ("" for
\* none) and the chunks it returns.
ProcessPDF(text) ==
  IF text = << >> \/ Len(Trim(text)) = 0
  THEN [error |-> "No text content found in PDF", chunks |-> << >>]
  ELSE LET chunks == chunkText(text, IngestMaxTokens, IngestOverlap) IN
       IF Len(chunks) = 0
       THEN [error |-> "Failed to create text chunks from PDF", chunks |-> << >>]
       ELSE [error |-> "", chunks |-> chunks]

\* The vectors built from the chunks and their embeddings (step 3).
BuildVectors(documentId, filePath, chatbotType, chunks, embeddings) ==
  [i \in 1..Len(chunks) |->
     [id |-> VectorId(documentId, chunks[i].index),
      values |-> IF i <= Len(embeddings) THEN embeddings[i] ELSE << >>,
      metadata |-> [text |-> chunks[i].text,
                    fileName |-> Basename(filePath),
                    chatbotType |-> chatbotType,
                    chunkIndex |-> chunks[i].index,
                    documentId |-> documentId]]]

\* An upsert that is started and not awaited: the final update follows at once.
StartUpsertNotAwaited(task) == [task EXCEPT !.pc = "markCompleted"]

\* upsertVectors entered with the task's vectors: its loop awaits the first
\* batch, or with no vector it returns and the final update is awaited.
StartUpsert(task) ==
  IF Len(task.vectors) > 0
  THEN [task EXCEPT !.pc = "upserting", !.pos = 0, !.upsertCalls = @ + 1]
  ELSE [task EXCEPT !.pc = "markCompleted"]

\* generateEmbeddings entered with the chunks' texts: its loop awaits the
\* first batch, or with no text it returns [] and the vectors are built.
StartEmbeddings(d, task, chunks) ==
  LET t == [task EXCEPT !.chunks = chunks, !.embeddings = << >>, !.pos = 0] IN
  IF Len(chunks) > 0
  THEN [t EXCEPT !.pc = "embedding", !.embedCalls = @ + 1]
  ELSE StartUpsert([t EXCEPT !.vectors =
         BuildVectors(d, t.filePath, t.chatbotType, chunks, << >>)])

\* An upsert that adds its records beside the ones already stored.
UpsertAppends(index, namespace, batch) ==
  index \cup {[namespace |-> namespace, id |-> batch[i].id,
               values |-> batch[i].values, metadata |-> batch[i].metadata] :
              i \in 1..Len(batch)}

\* index.namespace(namespace).upsert(batch): a record replaces the one with
\* its id in that namespace.
Upsert(index, namespace, batch) ==
  LET new == {[namespace |-> namespace, id |-> batch[i].id,
               values |-> batch[i].values, metadata |-> batch[i].metadata] :
              i \in 1..Len(batch)}
  IN {r \in index : ~\E n \in new : n.namespace = r.namespace /\ n.id = r.id} \cup new

\* arr.slice(i, i + size)
Slice(arr, i, size) ==
  SubSeq(arr, i + 1, IF i + size < Len(arr) THEN i + size ELSE Len(arr))

\* The update to "processing" returns; processPDF starts and reads the file.
IngestMarkedProcessing(d, ok) ==
  /\ ~exited
  /\ ingest[d].pc = "markProcessing"
  /\ ok \in BOOLEAN
  /\   IF ok
       THEN /\ kb' = FindByIdAndUpdate(kb, d, [status |-> "processing"])
            /\ IF ingest[d].filePath \in DOMAIN disk
               THEN ingest' = [ingest EXCEPT ![d] =
                      [@ EXCEPT !.pc = "parsing", !.dataBuffer = disk[ingest[d].filePath]]]
               ELSE \* fs.readFileSync throws; extractTextFromPDF rethrows its own error
                    ingest' = [ingest EXCEPT ![d] =
                      Caught(@, "Failed to extract text from PDF")]
       ELSE /\ ingest' = [ingest EXCEPT ![d] = Caught(@, "MongoError")]
            /\ UNCHANGED kb
  /\ UNCHANGED <<disk, pinecone, uploads, deletes, queries, conversations, exited, chunker>>

\* pdf(dataBuffer) returns or throws; the text is checked and chunked and
\* the first embedding request is sent.
IngestParsed(d) ==
  /\ ~exited
  /\ ingest[d].pc = "parsing"
  /\ LET task == ingest[d] IN
     IF ~task.dataBuffer.parses
     THEN ingest' = [ingest EXCEPT ![d] = Caught(@, "Failed to extract text from PDF")]
     ELSE LET text == task.dataBuffer.text
              got == ProcessPDF(text)
              t == [task EXCEPT !.parsed = TRUE]
          IN IF got.error # ""
             THEN ingest' = [ingest EXCEPT ![d] = Caught(t, got.error)]
             ELSE ingest' = [ingest EXCEPT ![d] = StartEmbeddings(d, t, got.chunks)]
  /\ UNCHANGED <<kb, disk, pinecone, uploads, deletes, queries, conversations, exited, chunker>>

\* One embeddings.create request of generateEmbeddings returns or throws.
IngestEmbedded(d, ok) ==
  /\ ~exited
  /\ ingest[d].pc = "embedding"
  /\ ok \in BOOLEAN
  /\   LET task == ingest[d]
           batch == Slice(task.chunks, task.pos, EmbeddingBatchSize)
           all == task.embeddings \o [i \in 1..Len(batch) |-> Embedding(batch[i].text)]
           pos == task.pos + EmbeddingBatchSize
       IN IF ~ok
          THEN ingest' = [ingest EXCEPT ![d] = Caught(@, "OpenAIError")]
          ELSE IF pos < Len(task.chunks)
          THEN ingest' = [ingest EXCEPT ![d] =
                 [@ EXCEPT !.embeddings = all, !.pos = pos, !.embedCalls = @ + 1]]
          ELSE ingest' = [ingest EXCEPT ![d] =
                 StartUpsert([task EXCEPT !.embeddings = all,
                                          !.vectors = BuildVectors(d, task.filePath,
                                             task.chatbotType, task.chunks, all)])]
  /\ UNCHANGED <<kb, disk, pinecone, uploads, deletes, queries, conversations, exited, chunker>>

\* One upsert request of upsertVectors returns or throws.
IngestUpserted(d, ok) ==
  /\ ~exited
  /\ ingest[d].pc = "upserting"
  /\ ok \in BOOLEAN
  /\   LET task == ingest[d]
           batch == Slice(task.vectors, task.pos, UpsertBatchSize)
           pos == task.pos + UpsertBatchSize
       IN IF ~ok
          THEN /\ ingest' = [ingest EXCEPT ![d] = Caught(@, "PineconeError")]
               /\ UNCHANGED pinecone
          ELSE /\ pinecone' = Upsert(pinecone, task.namespace, batch)
               /\ IF pos < Len(task.vectors)
                  THEN ingest' = [ingest EXCEPT ![d] =
                         [@ EXCEPT !.pos = pos, !.upsertCalls = @ + 1]]
                  ELSE ingest' = [ingest EXCEPT ![d] = [@ EXCEPT !.pc = "markCompleted"]]
  /\ UNCHANGED <<kb, disk, uploads, deletes, queries, conversations, exited, chunker>>

\* The update to "completed" returns or throws.
IngestMarkedCompleted(d, ok) ==
  /\ ~exited
  /\ ingest[d].pc = "markCompleted"
  /\ ok \in BOOLEAN
  /\   IF ok
       THEN /\ kb' = FindByIdAndUpdate(kb, d, CompletedUpdate(ingest[d].chunks))
            /\ ingest' = [ingest EXCEPT ![d] = [@ EXCEPT !.pc = "done"]]
       ELSE /\ ingest' = [ingest EXCEPT ![d] = Caught(@, "MongoError")]
            /\ UNCHANGED kb
  /\ UNCHANGED <<disk, pinecone, uploads, deletes, queries, conversations, exited, chunker>>

\* The catch block's update returns, or throws out of the task: nothing
\* handles that rejection and the process exits.
IngestMarkedFailed(d, ok) ==
  /\ ~exited
  /\ ingest[d].pc = "markFailed"
  /\ ok \in BOOLEAN
  /\   IF ok
       THEN /\ kb' = FindByIdAndUpdate(kb, d, FailedUpdate(ingest[d].error))
            /\ ingest' = [ingest EXCEPT ![d] = [@ EXCEPT !.pc = "done"]]
            /\ UNCHANGED exited
       ELSE /\ ingest' = [ingest EXCEPT ![d] = [@ EXCEPT !.pc = "rejected"]]
            /\ exited' = TRUE
            /\ UNCHANGED kb
  /\ UNCHANGED <<disk, pinecone, uploads, deletes, queries, conversations, chunker>>

(* -------------------------- deleteKnowledgeBase ----------------------- *)
\* index.namespace(namespace).deleteAll()
DeleteAll(index, namespace) == {r \in index : r.namespace # namespace}

\* DELETE /knowledge-base/:id arrives and findById returns: 404 without a
\* document; with one, its file is unlinked and deleteNamespace is awaited.
DeleteFound(r, id, ok) ==
  /\ ~exited
  /\ deletes[r].pc = "idle"
  /\ \A p \in DeleteIds : p < r => deletes[p].pc = "done"
  /\ ok \in BOOLEAN
  /\   IF ~ok
       THEN /\ deletes' = [deletes EXCEPT ![r] = [@ EXCEPT !.pc = "done", !.id = id,
                 !.resp = ErrorResponse500("Failed to delete knowledge base", "MongoError")]]
            /\ UNCHANGED disk
       ELSE IF id \notin DOMAIN kb
       THEN /\ deletes' = [deletes EXCEPT ![r] = [@ EXCEPT !.pc = "done", !.id = id,
                 !.resp = ErrorResponse(404, "Knowledge base document not found")]]
            /\ UNCHANGED disk
       ELSE /\ disk' = [f \in (DOMAIN disk) \ {kb[id].fileUrl} |-> disk[f]]
            /\ deletes' = [deletes EXCEPT ![r] = [@ EXCEPT !.pc = "deleteNamespace",
                 !.id = id, !.namespace = kb[id].pineconeNamespace]]
  /\ UNCHANGED <<kb, pinecone, uploads, ingest, queries, conversations, exited, chunker>>

\* deleteNamespace returns or throws; findByIdAndDelete is awaited.
DeleteNamespaceDone(r, ok) ==
  /\ ~exited
  /\ deletes[r].pc = "deleteNamespace"
  /\ ok \in BOOLEAN
  /\   IF ok
       THEN /\ pinecone' = DeleteAll(pinecone, deletes[r].namespace)
            /\ deletes' = [deletes EXCEPT ![r] = [@ EXCEPT !.pc = "deleteRecord"]]
       ELSE /\ deletes' = [deletes EXCEPT ![r] = [@ EXCEPT !.pc = "done",
                 !.resp = ErrorResponse500("Failed to delete knowledge base", "PineconeError")]]
            /\ UNCHANGED pinecone
  /\ UNCHANGED <<kb, disk, uploads, ingest, queries, conversations, exited, chunker>>

\* findByIdAndDelete returns or throws; the response is sent.
DeleteRecordDone(r, ok) ==
  /\ ~exited
  /\ deletes[r].pc = "deleteRecord"
  /\ ok \in BOOLEAN
  /\   IF ok
       THEN /\ kb' = FindByIdAndDelete(kb, deletes[r].id)
            /\ deletes' = [deletes EXCEPT ![r] = [@ EXCEPT !.pc = "done",
                 !.resp = [code |-> 200, body |-> [success |-> TRUE,
                           message |-> "Knowledge base document deleted successfully"]]]]
       ELSE /\ deletes' = [deletes EXCEPT ![r] = [@ EXCEPT !.pc = "done",
                 !.resp = ErrorResponse500("Failed to delete knowledge base", "MongoError")]]
            /\ UNCHANGED kb
  /\ UNCHANGED <<disk, pinecone, uploads, ingest, queries, conversations, exited, chunker>>

(* ------------------------------ ragService ---------------------------- *)
\* systemPrompts[chatbotType]
SystemPrompt(chatbotType) == [prompt |-> chatbotType]

\* The text the completion provider returns for a message sequence.
Completion(messages) == [completionOf |-> messages]

\* The similarity the index computes between the query and a stored vector.
Score(queryVector, values) == IF values = queryVector THEN 2 ELSE 1

\* A query that ranges over the whole index.
CandidatesUnscoped(index, namespace, filter) == index

\* The records a query of a namespace with a metadata filter ranges over.
Candidates(index, namespace, filter) ==
  {r \in index : r.namespace = namespace /\ r.metadata.chatbotType = filter.chatbotType}

\* querySimilarVectors: the match sequences the index may return, the topK
\* nearest candidates in descending similarity.
QuerySimilarVectors(index, namespace, queryVector, topK, filter) ==
  LET C == Candidates(index, namespace, filter)
      k == IF Cardinality(C) < topK THEN Cardinality(C) ELSE topK
  IN {[i \in 1..k |-> [id |-> s[i].id, score |-> Score(queryVector, s[i].values),
                       metadata |-> s[i].metadata]] :
      s \in {t \in [1..k -> C] :
               /\ \A i, j \in 1..k : i < j =>
                    /\ t[i] # t[j]
                    /\ Score(queryVector, t[i].values) >= Score(queryVector, t[j].values)
               /\ \A c \in C : (\A i \in 1..k : t[i] # c) =>
                    \A i \in 1..k : Score(queryVector, c.values) <= Score(queryVector, t[i].values)}}

\* Array.from(new Set(list))
RECURSIVE Dedupe(_)
Dedupe(list) ==
  IF list = << >> THEN << >>
  ELSE LET init == Dedupe(SubSeq(list, 1, Len(list) - 1))
           last == list[Len(list)]
       IN IF \E i \in 1..Len(init) : init[i] = last THEN init ELSE Append(init, last)

\* generateRAGResponse, steps 3 to 6: the chunks, the sources and the message
\* sequence built from the matches.
RelevantChunks(similarVectors) ==
  [i \in 1..Len(similarVectors) |->
     [text |-> similarVectors[i].metadata.text,
      fileName |-> similarVectors[i].metadata.fileName,
      score |-> similarVectors[i].score]]

Sources(relevantChunks) ==
  Dedupe([i \in 1..Len(relevantChunks) |-> relevantChunks[i].fileName])

RAGMessages(userQuery, chatbotType, relevantChunks, conversationHistory) ==
  <<[role |-> "system", content |-> SystemPrompt(chatbotType)],
    [role |-> "system",
     content |-> [context |-> [i \in 1..Len(relevantChunks) |->
                                 [label |-> i, text |-> relevantChunks[i].text]]]]>>
  \o [i \in 1..Len(conversationHistory) |->
        [role |-> IF conversationHistory[i].role = "user" THEN "user" ELSE "assistant",
         content |-> conversationHistory[i].content]]
  \o <<[role |-> "user", content |-> userQuery]>>

\* generateSimpleResponse's message sequence
SimpleMessages(userQuery, chatbotType) ==
  <<[role |-> "system", content |-> SystemPrompt(chatbotType)],
    [role |-> "user", content |-> userQuery]>>

(* ---------------------------- handleChatQuery ------------------------- *)
\* A handler that always retrieves.
UseRAGAlways(hasKnowledgeBase) == TRUE

\* The branch taken on the result of KnowledgeBase.exists.
UseRAG(hasKnowledgeBase) == hasKnowledgeBase # {}

\* A catch block that answers with a locally made text.
QueryFailedFallback(qr, error) ==
  [qr EXCEPT !.pc = "done", !.error = error,
             !.resp = [code |-> 200,
                       body |-> [success |-> TRUE,
                                 data |-> [response |-> [completionOf |-> << >>],
                                           sources |-> << >>,
                                           hasKnowledgeBase |-> FALSE]]]]

\* The handler's catch block: the response for an error thrown in it.
QueryFailed(qr, error) ==
  [qr EXCEPT !.pc = "done", !.error = error,
             !.resp = ErrorResponse500("Failed to process chat query", error)]

\* res.json({success: true, data: {...}})
QuerySucceeded(qr) ==
  [qr EXCEPT !.pc = "done",
             !.resp = [code |-> 200,
                       body |-> [success |-> TRUE,
                                 data |-> [response |-> qr.response,
                                           sources |-> qr.sources,
                                           hasKnowledgeBase |-> qr.hasKnowledgeBase # {}]]]]

\* An inner catch that rethrows to the handler's catch block.
SaveFailedPropagates(qr, error) ==
  [qr EXCEPT !.pc = "done", !.saveError = error, !.error = error,
             !.resp = ErrorResponse500("Failed to process chat query", error)]

\* saveConversation threw: the handler's inner catch logs the error and the
\* handler goes on to its response.
SaveFailed(qr, error) == QuerySucceeded([qr EXCEPT !.saveError = error])

\* handleChatQuery up to its first await: the body is validated and
\* KnowledgeBase.exists is awaited.
QueryValidated(q, message, chatbotType, sessionId, conversationHistory) ==
  /\ ~exited
  /\ queries[q].pc = "idle"
  /\ IF message = << >> \/ Len(Trim(message)) = 0
     THEN queries' = [queries EXCEPT ![q] =
            [@ EXCEPT !.pc = "done", !.resp = ErrorResponse(400, "Message is required")]]
     ELSE IF chatbotType \notin ChatbotTypes
     THEN queries' = [queries EXCEPT ![q] =
            [@ EXCEPT !.pc = "done", !.resp = ErrorResponse(400, "Invalid chatbot type")]]
     ELSE queries' = [queries EXCEPT ![q] =
            [@ EXCEPT !.pc = "exists", !.message = message, !.chatbotType = chatbotType,
                      !.sessionId = sessionId,
                      !.conversationHistory = conversationHistory]]
  /\ UNCHANGED <<kb, disk, pinecone, uploads, ingest, deletes, conversations, exited, chunker>>

\* POST /chatbot/query arrives after the requests before it were answered
\* (or left waiting for ever).
QueryReceived(q, message, chatbotType, sessionId, conversationHistory) ==
  /\ \A p \in DOMAIN queries : p < q => queries[p].pc \in {"done", "hung"}
  /\ QueryValidated(q, message, chatbotType, sessionId, conversationHistory)

\* POST /chatbot/query arrives while the requests before it may still be
\* in progress.
QueryReceivedMeanwhile(q, message, chatbotType, sessionId, conversationHistory) ==
  /\ \A p \in DOMAIN queries : p < q => queries[p].pc # "idle"
  /\ QueryValidated(q, message, chatbotType, sessionId, conversationHistory)

\* KnowledgeBase.exists returns or throws; with a knowledge base the query
\* embedding is awaited, without one the completion of the simple messages.
QueryChecked(q, ok) ==
  /\ ~exited
  /\ queries[q].pc = "exists"
  /\ ok \in BOOLEAN
  /\   LET qr == queries[q]
           found == {d \in DOMAIN kb : kb[d].chatbotType = qr.chatbotType
                                       /\ kb[d].status = "completed"}
           has == IF found = {} THEN {}
                  ELSE {CHOOSE d \in found : \A e \in found : d <= e}
       IN IF ~ok
          THEN queries' = [queries EXCEPT ![q] = QueryFailed(@, "MongoError")]
          ELSE IF UseRAG(has)
          THEN queries' = [queries EXCEPT ![q] =
                 [@ EXCEPT !.pc = "embedding", !.hasKnowledgeBase = has,
                           !.checked = TRUE, !.completedAtCheck = found,
                           !.embedCalls = @ + 1]]
          ELSE queries' = [queries EXCEPT ![q] =
                 [@ EXCEPT !.pc = "completing", !.hasKnowledgeBase = has,
                           !.checked = TRUE, !.completedAtCheck = found,
                           !.messages = SimpleMessages(qr.message, qr.chatbotType),
                           !.completionCalls = @ + 1]]
  /\ UNCHANGED <<kb, disk, pinecone, uploads, ingest, deletes, conversations, exited, chunker>>

\* generateEmbedding(userQuery) returns or throws; the index query is awaited.
QueryEmbedded(q, ok) ==
  /\ ~exited
  /\ queries[q].pc = "embedding"
  /\ ok \in BOOLEAN
  /\   IF ok
       THEN queries' = [queries EXCEPT ![q] =
              [@ EXCEPT !.pc = "querying", !.vectorQueries = @ + 1]]
       ELSE queries' = [queries EXCEPT ![q] = QueryFailed(@, "OpenAIError")]
  /\ UNCHANGED <<kb, disk, pinecone, uploads, ingest, deletes, conversations, exited, chunker>>

\* querySimilarVectors returns or throws; the context and the messages are
\* built and the completion is awaited.
QueryRetrieved(q, ok) ==
  /\ ~exited
  /\ queries[q].pc = "querying"
  /\ LET qr == queries[q] IN
     IF ~ok
     THEN queries' = [queries EXCEPT ![q] = QueryFailed(@, "PineconeError")]
     ELSE \E similarVectors \in QuerySimilarVectors(pinecone, Namespace(qr.chatbotType),
                                  Embedding(qr.message), TopK,
                                  [chatbotType |-> qr.chatbotType]) :
          LET relevantChunks == RelevantChunks(similarVectors) IN
          queries' = [queries EXCEPT ![q] =
            [@ EXCEPT !.pc = "completing",
                      !.similarVectors = similarVectors,
                      !.relevantChunks = relevantChunks,
                      !.sources = Sources(relevantChunks),
                      !.messages = RAGMessages(qr.message, qr.chatbotType,
                                               relevantChunks, qr.conversationHistory),
                      !.completionCalls = @ + 1]]
  /\ UNCHANGED <<kb, disk, pinecone, uploads, ingest, deletes, conversations, exited, chunker>>

\* generateChatCompletion returns or throws; with a sessionId
\* saveConversation starts and awaits Conversation.findOne, without one the
\* response is sent.
QueryCompleted(q, ok) ==
  /\ ~exited
  /\ queries[q].pc = "completing"
  /\ ok \in BOOLEAN
  /\   LET qr == queries[q]
           answered == [qr EXCEPT !.response = Completion(qr.messages)]
       IN IF ~ok
          THEN queries' = [queries EXCEPT ![q] = QueryFailed(@, "OpenAIError")]
          ELSE IF qr.sessionId # ""
          THEN queries' = [queries EXCEPT ![q] = [answered EXCEPT !.pc = "findOne"]]
          ELSE queries' = [queries EXCEPT ![q] = QuerySucceeded(answered)]
  /\ UNCHANGED <<kb, disk, pinecone, uploads, ingest, deletes, conversations, exited, chunker>>

\* new Date() as request q reads it: requests are handled one after the
\* other, so the clock of a later request is later.
Now(q) == q

\* The two messages pushed with the assistant's first.
PushedMessagesAiFirst(userMessage, aiResponse, sources) ==
  <<[sender |-> "ai", text |-> aiResponse, sources |-> sources],
    [sender |-> "user", text |-> userMessage, sources |-> << >>]>>

\* The two messages saveConversation pushes.
PushedMessages(userMessage, aiResponse, sources) ==
  <<[sender |-> "user", text |-> userMessage, sources |-> << >>],
    [sender |-> "ai", text |-> aiResponse, sources |-> sources]>>

\* Conversation.findOne returns or throws; the two messages are pushed on the
\* found or new conversation, lastMessageAt is set and its save is awaited.
QueryFoundConversation(q, ok) ==
  /\ ~exited
  /\ queries[q].pc = "findOne"
  /\ ok \in BOOLEAN
  /\   LET qr == queries[q]
           conversation ==
             IF qr.sessionId \in DOMAIN conversations
             THEN [isNew |-> FALSE,
                   chatbotType |-> conversations[qr.sessionId].chatbotType,
                   messages |-> conversations[qr.sessionId].messages,
                   lastMessageAt |-> conversations[qr.sessionId].lastMessageAt]
             ELSE [isNew |-> TRUE, chatbotType |-> qr.chatbotType, messages |-> << >>,
                   lastMessageAt |-> 0]
           pushed == PushedMessages(qr.message, qr.response, qr.sources)
       IN IF ok
          THEN queries' = [queries EXCEPT ![q] =
                 [@ EXCEPT !.pc = "save",
                           !.conversation = [conversation EXCEPT !.messages = @ \o pushed,
                                                                 !.lastMessageAt = Now(q)]]]
          ELSE queries' = [queries EXCEPT ![q] = SaveFailed(@, "MongoError")]
  /\ UNCHANGED <<kb, disk, pinecone, uploads, ingest, deletes, conversations, exited, chunker>>

\* conversation.save() returns or throws: a new conversation is inserted
\* (sessionId is unique), a found one gets the two pushed messages.
QuerySavedConversation(q, ok) ==
  /\ ~exited
  /\ queries[q].pc = "save"
  /\ ok \in BOOLEAN
  /\   LET qr == queries[q]
           sid == qr.sessionId
           n == Len(qr.conversation.messages)
           pushed == SubSeq(qr.conversation.messages, n - 1, n)
       IN IF ~ok
          THEN /\ queries' = [queries EXCEPT ![q] = SaveFailed(@, "MongoError")]
               /\ UNCHANGED conversations
          ELSE IF qr.conversation.isNew /\ sid \in DOMAIN conversations
          THEN /\ queries' = [queries EXCEPT ![q] = SaveFailed(@, "E11000 duplicate key")]
               /\ UNCHANGED conversations
          ELSE IF ~qr.conversation.isNew /\ sid \notin DOMAIN conversations
          THEN /\ queries' = [queries EXCEPT ![q] = SaveFailed(@, "DocumentNotFoundError")]
               /\ UNCHANGED conversations
          ELSE /\ conversations' =
                    IF qr.conversation.isNew
                    THEN (sid :> [chatbotType |-> qr.conversation.chatbotType,
                                  messages |-> qr.conversation.messages,
                                  lastMessageAt |-> qr.conversation.lastMessageAt])
                         @@ conversations
                    ELSE [conversations EXCEPT ![sid].messages = @ \o pushed,
                                               ![sid].lastMessageAt = qr.conversation.lastMessageAt]
               /\ queries' = [queries EXCEPT ![q] = QuerySucceeded([qr EXCEPT !.saved = TRUE])]
  /\ UNCHANGED <<kb, disk, pinecone, uploads, ingest, deletes, exited, chunker>>

\* The provider call that request q awaits never returns: no code of the
\* handler or of the services runs for q again (they set no timer).
QueryProviderHangs(q) ==
  /\ ~exited
  /\ queries[q].pc \in {"embedding", "querying", "completing"}
  /\ queries' = [queries EXCEPT ![q] = [@ EXCEPT !.pc = "hung"]]
  /\ UNCHANGED <<kb, disk, pinecone, uploads, ingest, deletes, conversations, exited, chunker>>

(* --------------------------- specifications -------------------------- *)
\* The knowledge base's life: uploads of every kind, ingestion and deletion
\* with every external call free to fail.
Next ==
  \/ \E u \in UploadIds, hasFile \in BOOLEAN, originalname \in OriginalNames,
        mimetype \in MimeTypes, content \in PdfContents, chatbotType \in ScopeInputs,
        saved \in BOOLEAN :
       UploadKnowledgeBase(u, hasFile, originalname, mimetype, content, chatbotType, saved)
  \/ \E d \in UploadIds, ok \in BOOLEAN : IngestMarkedProcessing(d, ok)
  \/ \E d \in UploadIds : IngestParsed(d)
  \/ \E d \in UploadIds, ok \in BOOLEAN : IngestEmbedded(d, ok)
  \/ \E d \in UploadIds, ok \in BOOLEAN : IngestUpserted(d, ok)
  \/ \E d \in UploadIds, ok \in BOOLEAN : IngestMarkedCompleted(d, ok)
  \/ \E d \in UploadIds, ok \in BOOLEAN : IngestMarkedFailed(d, ok)
  \/ \E r \in DeleteIds, id \in UploadIds, ok \in BOOLEAN : DeleteFound(r, id, ok)
  \/ \E r \in DeleteIds, ok \in BOOLEAN : DeleteNamespaceDone(r, ok)
  \/ \E r \in DeleteIds, ok \in BOOLEAN : DeleteRecordDone(r, ok)

Spec == Init /\ [][Next]_vars

\* Chat queries, with every call of theirs free to fail, over a knowledge
\* base that readable PDFs are uploaded to, ingested into and deleted from.
NextChat ==
  \/ \E u \in UploadIds, originalname \in OriginalNames, content \in ChatPdfContents,
        chatbotType \in ScopeInputs \cap ChatbotTypes :
       UploadKnowledgeBase(u, TRUE, originalname, "application/pdf", content, chatbotType, TRUE)
  \/ \E d \in UploadIds : IngestMarkedProcessing(d, TRUE)
  \/ \E d \in UploadIds : IngestParsed(d)
  \/ \E d \in UploadIds : IngestEmbedded(d, TRUE)
  \/ \E d \in UploadIds : IngestUpserted(d, TRUE)
  \/ \E d \in UploadIds : IngestMarkedCompleted(d, TRUE)
  \/ \E d \in UploadIds : IngestMarkedFailed(d, TRUE)
  \/ \E r \in DeleteIds, id \in UploadIds : DeleteFound(r, id, TRUE)
  \/ \E r \in DeleteIds : DeleteNamespaceDone(r, TRUE)
  \/ \E r \in DeleteIds : DeleteRecordDone(r, TRUE)
  \/ \E q \in QueryIds, message \in QueryMessages, chatbotType \in ScopeInputs,
        sessionId \in SessionIds, conversationHistory \in Histories :
       QueryReceived(q, message, chatbotType, sessionId, conversationHistory)
  \/ \E q \in QueryIds, ok \in BOOLEAN : QueryChecked(q, ok)
  \/ \E q \in QueryIds, ok \in BOOLEAN : QueryEmbedded(q, ok)
  \/ \E q \in QueryIds, ok \in BOOLEAN : QueryRetrieved(q, ok)
  \/ \E q \in QueryIds, ok \in BOOLEAN : QueryCompleted(q, ok)
  \/ \E q \in QueryIds, ok \in BOOLEAN : QueryFoundConversation(q, ok)
  \/ \E q \in QueryIds, ok \in BOOLEAN : QuerySavedConversation(q, ok)

SpecChat == Init /\ [][NextChat]_vars

\* Sessions: requests that follow one another on a knowledge base of one
\* readable PDF, every call of theirs free to fail and the provider calls
\* free never to return.  A call of a request that returns does so eventually.
InitSession ==
  /\ kb = << >>
  /\ disk = << >>
  /\ pinecone = {}
  /\ uploads = [u \in UploadIds |-> NoResp]
  /\ ingest = [u \in UploadIds |-> IdleTask]
  /\ deletes = [r \in DeleteIds |-> IdleDelete]
  /\ queries = [q \in SessionQueryIds |-> IdleQuery]
  /\ conversations = << >>
  /\ exited = FALSE
  /\ chunker = IdleChunker

NextSession ==
  \/ \E originalname \in OriginalNames, content \in ChatPdfContents :
       UploadKnowledgeBase(1, TRUE, originalname, "application/pdf", content, "general", TRUE)
  \/ IngestMarkedProcessing(1, TRUE)
  \/ IngestParsed(1)
  \/ IngestEmbedded(1, TRUE)
  \/ IngestUpserted(1, TRUE)
  \/ IngestMarkedCompleted(1, TRUE)
  \/ \E q \in SessionQueryIds, chatbotType \in ScopeInputs \cap ChatbotTypes,
        sessionId \in SessionIds :
       QueryReceived(q, <<"q">>, chatbotType, sessionId, << >>)
  \/ \E q \in SessionQueryIds, ok \in BOOLEAN : QueryChecked(q, ok)
  \/ \E q \in SessionQueryIds, ok \in BOOLEAN : QueryEmbedded(q, ok)
  \/ \E q \in SessionQueryIds, ok \in BOOLEAN : QueryRetrieved(q, ok)
  \/ \E q \in SessionQueryIds, ok \in BOOLEAN : QueryCompleted(q, ok)
  \/ \E q \in SessionQueryIds, ok \in BOOLEAN : QueryFoundConversation(q, ok)
  \/ \E q \in SessionQueryIds, ok \in BOOLEAN : QuerySavedConversation(q, ok)
  \/ \E q \in SessionQueryIds : QueryProviderHangs(q)

\* The steps that a returning call of request q makes its handler take.
QueryReturns(q) ==
  \/ \E ok \in BOOLEAN : QueryChecked(q, ok)
  \/ \E ok \in BOOLEAN : QueryEmbedded(q, ok)
  \/ \E ok \in BOOLEAN : QueryRetrieved(q, ok)
  \/ \E ok \in BOOLEAN : QueryCompleted(q, ok)
  \/ \E ok \in BOOLEAN : QueryFoundConversation(q, ok)
  \/ \E ok \in BOOLEAN : QuerySavedConversation(q, ok)

SpecSession ==
  /\ InitSession /\ [][NextSession]_vars
  /\ \A q \in SessionQueryIds : WF_vars(QueryReturns(q))

\* Overlapping requests: queries that arrive while earlier ones are in
\* progress, with no knowledge base and every call returning its result; the
\* session may have a conversation from an earlier exchange.
OverlapMessages == {<<"q">>, <<"r">>}
EarlierConversation ==
  [chatbotType |-> "general",
   messages |-> PushedMessages(<<"p">>, Completion(SimpleMessages(<<"p">>, "general")), << >>),
   lastMessageAt |-> 0]

InitOverlap ==
  /\ kb = << >>
  /\ disk = << >>
  /\ pinecone = {}
  /\ uploads = [u \in UploadIds |-> NoResp]
  /\ ingest = [u \in UploadIds |-> IdleTask]
  /\ deletes = [r \in DeleteIds |-> IdleDelete]
  /\ queries = [q \in SessionQueryIds |-> IdleQuery]
  /\ conversations \in {<< >>, [sid \in {"s1"} |-> EarlierConversation]}
  /\ exited = FALSE
  /\ chunker = IdleChunker

NextOverlap ==
  \/ \E q \in SessionQueryIds, message \in OverlapMessages, sessionId \in SessionIds :
       QueryReceivedMeanwhile(q, message, "general", sessionId, << >>)
  \/ \E q \in SessionQueryIds : QueryChecked(q, TRUE)
  \/ \E q \in SessionQueryIds : QueryCompleted(q, TRUE)
  \/ \E q \in SessionQueryIds : QueryFoundConversation(q, TRUE)
  \/ \E q \in SessionQueryIds : QuerySavedConversation(q, TRUE)

SpecOverlap == InitOverlap /\ [][NextOverlap]_vars

\* Ingestions on their own: uploads of every kind and the background tasks
\* they start, every external call free to fail.  Every call that a task
\* awaits returns eventually, with a result or with an error.
NextIngest ==
  \/ \E u \in UploadIds, hasFile \in BOOLEAN, originalname \in OriginalNames,
        mimetype \in MimeTypes, content \in PdfContents, chatbotType \in ScopeInputs,
        saved \in BOOLEAN :
       UploadKnowledgeBase(u, hasFile, originalname, mimetype, content, chatbotType, saved)
  \/ \E d \in UploadIds, ok \in BOOLEAN : IngestMarkedProcessing(d, ok)
  \/ \E d \in UploadIds : IngestParsed(d)
  \/ \E d \in UploadIds, ok \in BOOLEAN : IngestEmbedded(d, ok)
  \/ \E d \in UploadIds, ok \in BOOLEAN : IngestUpserted(d, ok)
  \/ \E d \in UploadIds, ok \in BOOLEAN : IngestMarkedCompleted(d, ok)
  \/ \E d \in UploadIds, ok \in BOOLEAN : IngestMarkedFailed(d, ok)

\* The steps that a returning call to the database, the embedding provider
\* or the index makes document d's task take.
IngestReturns(d) ==
  \/ \E ok \in BOOLEAN : IngestMarkedProcessing(d, ok)
  \/ \E ok \in BOOLEAN : IngestEmbedded(d, ok)
  \/ \E ok \in BOOLEAN : IngestUpserted(d, ok)
  \/ \E ok \in BOOLEAN : IngestMarkedCompleted(d, ok)
  \/ \E ok \in BOOLEAN : IngestMarkedFailed(d, ok)

\* pdf-parse returns to document d's task: weak fairness of IngestParsed(d),
\* stated on its enabling condition (the step always leaves "parsing").
ParseReturns(d) == []<>(exited \/ ingest[d].pc # "parsing")

SpecIngest ==
  /\ Init /\ [][NextIngest]_vars
  /\ \A d \in UploadIds : WF_vars(IngestReturns(d)) /\ ParseReturns(d)

\* chunkText on its own: called with any of the arguments, it returns.
InitChunk ==
  /\ kb = << >>
  /\ disk = << >>
  /\ pinecone = {}
  /\ uploads = [u \in UploadIds |-> NoResp]
  /\ ingest = [u \in UploadIds |-> IdleTask]
  /\ deletes = [r \in DeleteIds |-> IdleDelete]
  /\ queries = [q \in QueryIds |-> IdleQuery]
  /\ conversations = << >>
  /\ exited = FALSE
  /\ chunker \in [pc : {"called"}, text : ChunkTexts, maxTokens : ChunkMaxTokens,
                   overlap : ChunkOverlaps, chunks : {<< >>}]

ChunkTextReturned ==
  /\ chunker.pc = "called"
  /\ chunker' = [chunker EXCEPT !.pc = "returned",
                    !.chunks = chunkText(chunker.text, chunker.maxTokens, chunker.overlap)]
  /\ UNCHANGED <<kb, disk, pinecone, uploads, ingest, deletes, queries, conversations, exited>>

NextChunk == ChunkTextReturned

SpecChunk == InitChunk /\ [][NextChunk]_vars

(* ------------------------------- claims ------------------------------- *)
\* The status changes a step makes to the documents that exist before and
\* after it.
StatusChanges ==
  {<<kb[d].status, kb'[d].status>> :
     d \in {e \in DOMAIN kb \cap DOMAIN kb' : kb[e].status # kb'[e].status}}

\* C1, as claimed: a document is created pending and its status only ever
\* moves pending -> processing -> completed or pending -> processing ->
\* failed, never skipping processing and never leaving completed or failed.
C1_StatusPath ==
  [][/\ \A d \in DOMAIN kb' \ DOMAIN kb : kb'[d].status = "pending"
     /\ StatusChanges \subseteq {<<"pending", "processing">>,
                                 <<"processing", "completed">>,
                                 <<"processing", "failed">>}]_vars

\* C1, amended: the status moves pending -> processing -> completed or
\* failed, or straight from pending to failed when the update that writes
\* "processing" itself throws (the catch block then records that error);
\* completed and failed are never left.
C1_StatusPathAmended ==
  [][/\ \A d \in DOMAIN kb' \ DOMAIN kb : kb'[d].status = "pending"
     /\ StatusChanges \subseteq {<<"pending", "processing">>,
                                 <<"processing", "completed">>,
                                 <<"processing", "failed">>,
                                 <<"pending", "failed">>}
     /\ \A d \in DOMAIN kb \cap DOMAIN kb' :
          (kb[d].status = "pending" /\ kb'[d].status = "failed") =>
            /\ ingest[d].pc = "markFailed"
            /\ ingest[d].error = "MongoError"
            /\ ~ingest[d].parsed /\ ingest[d].embedCalls = 0
            /\ kb'[d].errorMessage = "MongoError"]_vars

\* A document went from pending to failed while another one completed.
C1_Witness ==
  \E d, e \in DOMAIN kb :
    /\ kb[d].status = "failed" /\ ingest[d].pc = "done"
    /\ kb[d].errorMessage = "MongoError" /\ ingest[d].embedCalls = 0
    /\ kb[e].status = "completed"

\* C2, as claimed: the step of a DELETE that removes vectors removes the
\* vector records of its document and none of another document.
C2_DeleteKeepsSiblingVectors ==
  [][\A r \in DeleteIds :
       (deletes[r].pc = "deleteNamespace" /\ deletes'[r].pc = "deleteRecord") =>
         \A v \in pinecone :
           (v \in pinecone') <=> (v.metadata.documentId # deletes[r].id)]_vars

\* Text that is empty or whitespace only.
Blank(text) == Len(Trim(text)) = 0

C7_UploadRespondsPending ==
  [][\A u \in UploadIds :
       /\ (uploads[u].code = 0 /\ uploads'[u].code = 202) =>
            /\ u \notin DOMAIN kb /\ u \in DOMAIN kb'
            /\ kb'[u].status = "pending"
            /\ ingest'[u].pc = "markProcessing"
            /\ uploads'[u].body.data.status = "pending"
            /\ uploads'[u].body.data.id = u
       /\ uploads[u].code # 0 => uploads'[u] = uploads[u]
       /\ (u \in DOMAIN kb' \ DOMAIN kb) => uploads'[u].code = 202]_vars

\* An accepted upload whose ingestion has ended, one way or the other.
C7_Witness ==
  \E u, v \in DOMAIN kb :
    /\ uploads[u].code = 202 /\ uploads[u].body.data.status = "pending"
    /\ kb[u].status = "completed"
    /\ uploads[v].code = 202 /\ kb[v].status = "failed"

\* C8, as claimed: when a DELETE answers 200 its document has no record, no
\* file and no vector, and stays so; a DELETE that answers 404 had no
\* document to delete and changed no record, file or vector.
C8_DeleteRemovesEverything ==
  [][\A r \in DeleteIds :
       /\ deletes'[r].resp.code = 200 =>
            /\ deletes'[r].id \notin DOMAIN kb'
            /\ ingest'[deletes'[r].id].filePath \notin DOMAIN disk'
            /\ \A v \in pinecone' : v.metadata.documentId # deletes'[r].id
       /\ (deletes[r].resp.code = 0 /\ deletes'[r].resp.code = 404) =>
            /\ deletes'[r].id \notin DOMAIN kb
            /\ kb' = kb /\ disk' = disk /\ pinecone' = pinecone]_vars

\* C3: a query whose check found no completed document of its scope makes
\* no embedding request and no index query, and a success response to it
\* carries hasKnowledgeBase false and no source.
C3_UngroundedSkipsRetrieval ==
  \A q \in QueryIds :
    (queries[q].checked /\ queries[q].completedAtCheck = {}) =>
      /\ queries[q].embedCalls = 0
      /\ queries[q].vectorQueries = 0
      /\ queries[q].similarVectors = << >>
      /\ queries[q].resp.code \in {0, 200, 500}
      /\ queries[q].resp.code = 200 =>
           /\ queries[q].resp.body.data.hasKnowledgeBase = FALSE
           /\ queries[q].resp.body.data.sources = << >>

\* An ungrounded query answered while the index holds vectors of its scope.
C3_Witness ==
  \E q \in QueryIds :
    /\ queries[q].checked /\ queries[q].completedAtCheck = {}
    /\ queries[q].resp.code = 200
    /\ \E v \in pinecone : v.metadata.chatbotType = queries[q].chatbotType

\* C4: every vector record of the index lies in the namespace of the topic
\* scope its document was uploaded with, and every match of a query, and so
\* every chunk and source it returns, is a vector record built by the
\* ingestion of a document uploaded with the query's topic scope.
C4_RetrievalScoped ==
  /\ \A v \in pinecone :
       /\ uploads[v.metadata.documentId].code = 202
       /\ uploads[v.metadata.documentId].body.data.chatbotType = v.metadata.chatbotType
       /\ v.namespace = Namespace(v.metadata.chatbotType)
  /\ \A q \in QueryIds :
    LET qr == queries[q] IN
    /\ \A i \in 1..Len(qr.similarVectors) :
         LET m == qr.similarVectors[i]
             d == m.metadata.documentId
         IN /\ d \in UploadIds
            /\ uploads[d].code = 202
            /\ uploads[d].body.data.chatbotType = qr.chatbotType
            /\ \E j \in 1..Len(ingest[d].vectors) :
                 /\ ingest[d].vectors[j].id = m.id
                 /\ ingest[d].vectors[j].metadata = m.metadata
            /\ qr.relevantChunks[i].text = m.metadata.text
            /\ qr.relevantChunks[i].fileName = m.metadata.fileName
    /\ Len(qr.relevantChunks) = Len(qr.similarVectors)
    /\ \A k \in 1..Len(qr.sources) :
         \E i \in 1..Len(qr.similarVectors) :
           qr.sources[k] = qr.similarVectors[i].metadata.fileName
    /\ qr.resp.code = 200 => qr.resp.body.data.sources = qr.sources

\* A grounded query got a match while a document of another scope had its
\* vector in the index.
C4_Witness ==
  \E q \in QueryIds :
    /\ Len(queries[q].similarVectors) > 0
    /\ queries[q].resp.code = 200
    /\ \E v \in pinecone : v.metadata.chatbotType # queries[q].chatbotType

\* The number of messages in the conversation store.
RECURSIVE StoredMessages(_)
StoredMessages(sids) ==
  IF sids = {} THEN 0
  ELSE LET sid == CHOOSE x \in sids : TRUE
       IN Len(conversations[sid].messages) + StoredMessages(sids \ {sid})

\* C9: a query whose handler caught an error (of the check, the query
\* embedding, the index query or the completion) is answered 500 with no
\* answer text, and nothing was stored for it: the store holds two messages
\* for each query that saved and none for any other.
C9_FailedQueryAnswers500 ==
  /\ \A q \in QueryIds :
       queries[q].error # "" =>
         /\ queries[q].pc = "done"
         /\ queries[q].resp.code = 500
         /\ queries[q].resp.body.success = FALSE
         /\ "data" \notin DOMAIN queries[q].resp.body
         /\ ~queries[q].saved
  /\ StoredMessages(DOMAIN conversations) =
       2 * Cardinality({q \in QueryIds : queries[q].saved})

\* The index query of a request with a sessionId failed.
C9_Witness ==
  \E q \in QueryIds :
    /\ queries[q].error = "PineconeError" /\ queries[q].sessionId # ""
    /\ queries[q].embedCalls = 1 /\ queries[q].vectorQueries = 1
    /\ queries[q].resp.code = 500

\* C10: a query whose answer was generated and whose conversation write
\* failed is answered 200 with the generated text, the sources of its
\* matches and hasKnowledgeBase as its check found.
C10_SaveFailureSwallowed ==
  \A q \in QueryIds :
    LET qr == queries[q] IN
    qr.saveError # "" =>
      /\ qr.pc = "done"
      /\ qr.error = ""
      /\ qr.resp.code = 200
      /\ qr.resp.body.success = TRUE
      /\ qr.resp.body.data.response = Completion(qr.messages)
      /\ qr.resp.body.data.sources = Sources(RelevantChunks(qr.similarVectors))
      /\ qr.resp.body.data.hasKnowledgeBase = (qr.completedAtCheck # {})

\* The save of a grounded answer with a source failed.
C10_Witness ==
  \E q \in QueryIds :
    /\ queries[q].saveError # "" /\ queries[q].conversation.messages # << >>
    /\ queries[q].resp.code = 200
    /\ Len(queries[q].resp.body.data.sources) > 0


\* C11: a document whose chunkCount is not 0 is completed.
C11_ChunkCountOnlyWhenCompleted ==
  \A d \in DOMAIN kb : kb[d].chunkCount # 0 => kb[d].status = "completed"

\* One document is completed with its chunk counted while another, whose
\* chunks were made and embedded, is failed.
C11_Witness ==
  \E d, e \in DOMAIN kb :
    /\ kb[d].status = "completed" /\ kb[d].chunkCount = 1
    /\ kb[e].status = "failed" /\ Len(ingest[e].chunks) = 1 /\ ingest[e].upsertCalls = 1


\* The vectors a second run of document d's ingestion builds from the same
\* chunks; the provider's embeddings need not be those of the first run.
Reingested(d) ==
  BuildVectors(d, ingest[d].filePath, ingest[d].chatbotType, ingest[d].chunks,
               [i \in 1..Len(ingest[d].chunks) |->
                  <<"embedding", ingest[d].chunks[i].text, "again">>])

\* The vectors of document d are all in the index.
Indexed(d) ==
  /\ ingest[d].vectors # << >>
  /\ \A i \in 1..Len(ingest[d].vectors) :
       \E v \in pinecone : v.namespace = ingest[d].namespace /\ v.id = ingest[d].vectors[i].id

Normalized(text) == Trim(CollapseNl(CollapseWs(text)))

\* The sentence-like units of a normalized text, which together make up all
\* of it: each a run of other characters closed by its run of terminators,
\* and the text after the last terminator.
RECURSIVE Units(_)
Units(s) ==
  IF s = << >> THEN << >>
  ELSE LET n == RunLen(s, FALSE)
           m == RunLen(SubSeq(s, n + 1, Len(s)), TRUE)
       IN <<SubSeq(s, 1, n + m)>> \o Units(SubSeq(s, n + m + 1, Len(s)))

\* t occurs in s
Contains(s, t) == \E i \in 0..(Len(s) - Len(t)) : SubSeq(s, i + 1, i + Len(t)) = t

\* Every unit occurs in some chunk at or after position from, the chunks
\* taken in the units' order.
RECURSIVE InOrder(_, _, _)
InOrder(units, chunks, from) ==
  IF units = << >> THEN TRUE
  ELSE LET js == {j \in from..Len(chunks) : Contains(chunks[j].text, Trim(Head(units)))}
       IN /\ js # {}
          /\ InOrder(Tail(units), chunks, CHOOSE j \in js : \A k \in js : j <= k)

\* C13, as claimed: for a text that is not blank chunkText returns at least
\* one chunk, and every sentence-like unit of the normalized text, the text
\* after the last terminator included, occurs in the chunks in its order.
C13_NoTextDropped ==
  (chunker.pc = "returned" /\ ~Blank(chunker.text)) =>
    /\ Len(chunker.chunks) >= 1
    /\ InOrder(Units(Normalized(chunker.text)), chunker.chunks, 1)


NonEmpty(w) == w # << >>

\* The words of a chunk's text.
Words(text) == SelectSeq(SplitSpace(text), NonEmpty)

\* The overlap chunkText works with.
EffectiveOverlap(optOverlap) == IF optOverlap = 0 THEN DefaultOverlap ELSE optOverlap

\* C14: every chunk after the first begins with the last k words of the
\* chunk before it, for some k from 1 up to the overlap.
C14_OverlapSeed ==
  chunker.pc = "returned" =>
    \A j \in 2..Len(chunker.chunks) :
      LET pw == Words(chunker.chunks[j - 1].text)
          nw == Words(chunker.chunks[j].text)
      IN \E k \in 1..EffectiveOverlap(chunker.overlap) :
           /\ k <= Len(pw) /\ k <= Len(nw)
           /\ SubSeq(nw, 1, k) = SubSeq(pw, Len(pw) - k + 1, Len(pw))

\* With overlap 1, a chunk of two different words was closed and seeded the
\* next one.
C14_Witness ==
  /\ chunker.pc = "returned" /\ chunker.overlap = 1
  /\ Len(chunker.chunks) >= 2
  /\ LET pw == Words(chunker.chunks[1].text)
     IN Len(pw) = 2 /\ pw[1] # pw[2]


\* C15, as claimed: an upload with no file, with a file whose MIME type is
\* not application/pdf, or with a topic scope that is not enumerated is
\* answered 400, and its step creates no document and starts no ingestion.
C15_InvalidUploadAnswers400 ==
  [][\A u \in UploadIds, hasFile \in BOOLEAN, originalname \in OriginalNames,
        mimetype \in MimeTypes, content \in PdfContents, chatbotType \in ScopeInputs,
        saved \in BOOLEAN :
       (/\ UploadKnowledgeBase(u, hasFile, originalname, mimetype, content, chatbotType, saved)
        /\ \/ ~hasFile
           \/ hasFile /\ mimetype # "application/pdf"
           \/ chatbotType \notin ChatbotTypes)
       => /\ uploads'[u].code = 400
          /\ kb' = kb
          /\ ingest' = ingest]_vars


\* C16, as claimed: a request whose provider call never returns is answered
\* all the same.
C16_HungCallTimesOut ==
  \A q \in SessionQueryIds : (queries[q].pc = "hung") ~> (queries[q].resp.code # 0)


\* An original file name as a path of one part.
AsPath(fileName) == <<fileName>>

\* C17, as claimed: the file name in the metadata of every vector record is
\* the fileName of the document it belongs to, and every source returned to
\* a grounded query is the fileName of a document uploaded with its scope.
C17_SourcesAreFileNames ==
  /\ \A v \in pinecone :
       v.metadata.documentId \in DOMAIN kb =>
         v.metadata.fileName = AsPath(kb[v.metadata.documentId].fileName)
  /\ \A q \in QueryIds :
       queries[q].resp.code = 200 =>
         \A k \in 1..Len(queries[q].resp.body.data.sources) :
           \E d \in UploadIds :
             /\ uploads[d].code = 202
             /\ uploads[d].body.data.chatbotType = queries[q].chatbotType
             /\ queries[q].resp.body.data.sources[k] = AsPath(uploads[d].body.data.fileName)


\* The number of requests a loop over n items in batches of size makes.
Batches(n, size) == (n + size - 1) \div size

\* The moves of an ingestion's position that follow the order of its steps,
\* and the move of any step of the try block to the catch block.
StepOrder ==
  {<<"idle", "markProcessing">>, <<"markProcessing", "parsing">>,
   <<"parsing", "embedding">>, <<"embedding", "embedding">>,
   <<"embedding", "upserting">>, <<"upserting", "upserting">>,
   <<"upserting", "markCompleted">>, <<"markCompleted", "done">>,
   <<"markFailed", "done">>, <<"markFailed", "rejected">>}
  \cup {<<pc, "markFailed">> :
          pc \in {"markProcessing", "parsing", "embedding", "upserting", "markCompleted"}}

\* C18: the steps of one ingestion follow one another in order.  Extraction
\* starts in the step in which the write of 'processing' returned; an
\* embedding request is sent only with the text extracted and chunked; an
\* upsert request is sent only with every embedding batch returned; and
\* 'completed' is written only with every upsert batch returned.
C18_StepsInOrder ==
  [][\A d \in UploadIds :
       LET old == ingest[d]
           new == ingest'[d]
       IN /\ new # old => <<old.pc, new.pc>> \in StepOrder
          /\ (new.pc = "parsing" /\ old.pc # "parsing") =>
               /\ old.pc = "markProcessing"
               /\ d \in DOMAIN kb' => kb'[d].status = "processing"
          /\ new.embedCalls > old.embedCalls =>
               /\ new.parsed /\ new.upsertCalls = 0
               /\ new.chunks = ProcessPDF(new.dataBuffer.text).chunks
               /\ new.chunks # << >>
          /\ new.upsertCalls > old.upsertCalls =>
               /\ new.embedCalls = Batches(Len(new.chunks), EmbeddingBatchSize)
               /\ Len(new.embeddings) = Len(new.chunks)
               /\ Len(new.vectors) = Len(new.chunks)
               /\ old.pc \in {"embedding", "upserting"}
          /\ (d \in DOMAIN kb /\ d \in DOMAIN kb' /\ kb[d].status # "completed"
                /\ kb'[d].status = "completed") =>
               /\ old.pc = "markCompleted"
               /\ kb[d].status = "processing"
               /\ old.upsertCalls = Batches(Len(old.vectors), UpsertBatchSize)
               /\ old.pos + UpsertBatchSize >= Len(old.vectors)]_vars

\* An ingestion went through all its steps to completed.
C18_Witness ==
  \E d \in DOMAIN kb :
    /\ kb[d].status = "completed" /\ ingest[d].pc = "done"
    /\ ingest[d].embedCalls = 1 /\ ingest[d].upsertCalls = 1
    /\ \E v \in pinecone : v.metadata.documentId = d


\* The vector records of document d in the index.
RecordsOf(index, d) == {v \in index : v.metadata.documentId = d}

\* No delete request has been received.
NoDeleteStarted == \A r \in DOMAIN deletes : deletes[r].pc = "idle"

\* Every completed document has exactly chunkCount records, one for each of
\* its chunks, with the chunk's text, in the namespace of its scope.
EachCompletedDocumentIndexed ==
  \A d \in DOMAIN kb :
    kb[d].status = "completed" =>
      /\ Cardinality(RecordsOf(pinecone, d)) = kb[d].chunkCount
      /\ kb[d].chunkCount = Len(ingest[d].chunks)
      /\ \A i \in 1..Len(ingest[d].chunks) :
           \E v \in RecordsOf(pinecone, d) :
             /\ v.id = VectorId(d, ingest[d].chunks[i].index)
             /\ v.namespace = Namespace(kb[d].chatbotType)
             /\ v.metadata.text = ingest[d].chunks[i].text
             /\ v.metadata.chunkIndex = ingest[d].chunks[i].index

\* C19: whatever the interleaving of the ingestions, a returning upsert of
\* one document leaves every record of every other document as it was, and,
\* as long as no delete was requested, each completed document has exactly
\* chunkCount records carrying its own text and documentId.
C19_ConcurrentIngestionsDisjoint ==
  [][/\ \A d \in UploadIds :
          ingest'[d].upsertCalls > ingest[d].upsertCalls =>
            /\ \A v \in pinecone : v.metadata.documentId # d => v \in pinecone'
            /\ \A v \in pinecone' \ pinecone : v.metadata.documentId = d
     /\ NoDeleteStarted' => EachCompletedDocumentIndexed']_vars

\* Two documents ingested into one namespace are both completed, no delete
\* requested, each with its own record.
C19_Witness ==
  \E d, e \in DOMAIN kb :
    /\ d # e /\ NoDeleteStarted
    /\ kb[d].status = "completed" /\ kb[e].status = "completed"
    /\ kb[d].chatbotType = kb[e].chatbotType
    /\ kb[d].chunkCount = 1 /\ kb[e].chunkCount = 1
    /\ RecordsOf(pinecone, d) # {} /\ RecordsOf(pinecone, e) # {}
    /\ RecordsOf(pinecone, d) \cap RecordsOf(pinecone, e) = {}


\* C20: the step in which a saveConversation call succeeds leaves the session's
\* conversation, created if there was none, with its earlier messages
\* unchanged followed by exactly two more, the user message and then the
\* assistant message with the sources, sets lastMessageAt to the time of the
\* call, and changes no other conversation; nothing else changes a conversation.
C20_SaveAppendsPair ==
  [][/\ \A q \in SessionQueryIds :
          (queries'[q].saved /\ ~queries[q].saved) =>
            LET sid == queries[q].sessionId
                found == sid \in DOMAIN conversations
                old == IF found THEN conversations[sid].messages ELSE << >>
                new == conversations'[sid].messages
            IN /\ DOMAIN conversations' = DOMAIN conversations \cup {sid}
               /\ Len(new) = Len(old) + 2
               /\ SubSeq(new, 1, Len(old)) = old
               /\ new[Len(old) + 1].sender = "user"
               /\ new[Len(old) + 1].text = queries[q].message
               /\ new[Len(old) + 1].sources = << >>
               /\ new[Len(old) + 2].sender = "ai"
               /\ new[Len(old) + 2].text = queries[q].response
               /\ new[Len(old) + 2].sources = queries[q].sources
               /\ conversations'[sid].lastMessageAt = Now(q)
               /\ found => /\ conversations'[sid].lastMessageAt > conversations[sid].lastMessageAt
                           /\ conversations'[sid].chatbotType = conversations[sid].chatbotType
               /\ \A other \in DOMAIN conversations \ {sid} :
                    conversations'[other] = conversations[other]
     /\ conversations' # conversations =>
          \E q \in SessionQueryIds : queries'[q].saved /\ ~queries[q].saved]_vars

\* A session's second exchange was appended to its first, the assistant
\* messages carrying sources.
C20_Witness ==
  \E sid \in DOMAIN conversations :
    LET c == conversations[sid]
    IN /\ Len(c.messages) = 4
       /\ c.lastMessageAt = Now(2)
       /\ c.messages[1].sender = "user" /\ c.messages[2].sender = "ai"
       /\ c.messages[3].sender = "user" /\ c.messages[4].sender = "ai"
       /\ c.messages[2].sources # << >> /\ c.messages[4].sources # << >>


\* C21, as claimed: the message sequence sent to the completion provider is
\* the scope's system prompt, then the context message when the request is
\* grounded and no such message when it is not, then every turn of the
\* caller's conversationHistory in its order, then the user query last, on
\* the grounded and on the ungrounded path.
C21_MessageSequence ==
  \A q \in DOMAIN queries :
    queries[q].completionCalls > 0 =>
      LET qr == queries[q]
          m == qr.messages
          h == qr.conversationHistory
          grounded == qr.hasKnowledgeBase # {}
          off == IF grounded THEN 2 ELSE 1
      IN /\ Len(m) = off + Len(h) + 1
         /\ m[1].role = "system" /\ m[1].content = SystemPrompt(qr.chatbotType)
         /\ grounded => m[2].role = "system" /\ m[2].content.context =
                          [i \in 1..Len(qr.relevantChunks) |->
                             [label |-> i, text |-> qr.relevantChunks[i].text]]
         /\ \A i \in 1..Len(h) :
              m[off + i].role = h[i].role /\ m[off + i].content = h[i].content
         /\ m[Len(m)].role = "user" /\ m[Len(m)].content = qr.message


\* chunkText's sentences: the matches of its pattern, or the whole cleaned
\* text when there is none.
Sentences(text) ==
  LET matched == MatchSentences(Normalized(text))
  IN IF matched = << >> THEN <<Normalized(text)>> ELSE matched

\* options?.maxTokens || 500
EffectiveMaxTokens(optMaxTokens) ==
  IF optMaxTokens = 0 THEN DefaultMaxTokens ELSE optMaxTokens

\* C22, as claimed: a chunk returned by chunkText whose text, overlap seed
\* included, is estimated at more than maxTokens tokens contains a sentence
\* that alone is estimated at more than maxTokens; every other chunk is
\* within maxTokens.
C22_ChunkWithinMaxTokens ==
  chunker.pc = "returned" =>
    LET maxTokens == EffectiveMaxTokens(chunker.maxTokens)
        sentences == Sentences(chunker.text)
    IN \A i \in 1..Len(chunker.chunks) :
         countTokens(chunker.chunks[i].text) > maxTokens =>
           \E j \in 1..Len(sentences) :
             /\ countTokens(sentences[j]) > maxTokens
             /\ Contains(chunker.chunks[i].text, Trim(sentences[j]))


C24_FailureKeepsFile ==
  [][/\ \A d \in UploadIds :
          (ingest'[d] # ingest[d]
             /\ (ingest[d].pc = "markFailed" \/ ingest'[d].pc = "markFailed")) =>
            /\ disk' = disk
            /\ pinecone' = pinecone
            /\ DOMAIN kb' = DOMAIN kb
            /\ \A e \in DOMAIN kb :
                 /\ DOMAIN kb'[e] = DOMAIN kb[e]
                 /\ \A f \in DOMAIN kb[e] :
                      kb'[e][f] # kb[e][f] =>
                        /\ e = d /\ f \in {"status", "errorMessage"}
                        /\ IF ingest[d].pc = "markFailed"
                           THEN /\ kb'[d].status = "failed"
                                /\ kb'[d].errorMessage = ingest[d].error
                           ELSE \* the update to processing returned and the
                                \* file could not be read
                                /\ ingest[d].pc = "markProcessing"
                                /\ f = "status" /\ kb'[d].status = "processing"
     /\ \A d \in DOMAIN kb' :
          (NoDeleteStarted' /\ kb'[d].status = "failed") =>
            /\ kb'[d].fileUrl = ingest'[d].filePath
            /\ kb'[d].fileUrl \in DOMAIN disk'
            /\ disk'[kb'[d].fileUrl] \in PdfContents]_vars

\* A document failed at its upsert and one failed at its extraction, both
\* with their files in storage.
C24_Witness ==
  \E d, e \in DOMAIN kb :
    /\ NoDeleteStarted
    /\ kb[d].status = "failed" /\ kb[d].errorMessage = "PineconeError"
    /\ kb[e].status = "failed" /\ kb[e].errorMessage = "Failed to extract text from PDF"
    /\ kb[d].fileUrl \in DOMAIN disk /\ kb[e].fileUrl \in DOMAIN disk
    /\ kb[d].fileUrl # kb[e].fileUrl


\* C25, as claimed: in every state a document whose status is failed has no
\* vector record in the index.
C25_FailedHasNoVectors ==
  \A d \in DOMAIN kb :
    kb[d].status = "failed" => \A v \in pinecone : v.metadata.documentId # d


\* C26, as claimed: once a DELETE of a document has answered 200 and the
\* document's background ingestion has ended, no vector record carrying the
\* document's id is in the index and no document record with that id exists.
C26_DeleteDuringIngestionLeavesNothing ==
  \A r \in DeleteIds :
    (deletes[r].pc = "done" /\ deletes[r].resp.code = 200
       /\ ingest[deletes[r].id].pc = "done") =>
      /\ deletes[r].id \notin DOMAIN kb
      /\ \A v \in pinecone : v.metadata.documentId # deletes[r].id


\* C27, as claimed: with every call that an ingestion awaits returning, a
\* result or an error, every uploaded document eventually is completed or
\* failed, also when the update that records 'failed' returns an error.
C27_IngestionEnds ==
  \A d \in UploadIds :
    (d \in DOMAIN kb) ~> (d \in DOMAIN kb /\ kb[d].status \in {"completed", "failed"})


\* C28, as claimed: a DELETE that ends with a 500 has changed nothing; here,
\* for what it says of the stored file: the step that sends the 500 changes
\* nothing, and the document it was sent for, still recorded, still has its
\* file in storage.
C28_FailedDeleteChangesNothing ==
  [][\A r \in DeleteIds :
       (deletes[r].resp.code = 0 /\ deletes'[r].resp.code = 500) =>
         /\ kb' = kb /\ disk' = disk /\ pinecone' = pinecone
         /\ deletes'[r].id \in DOMAIN kb =>
              kb[deletes'[r].id].fileUrl \in DOMAIN disk]_vars


\* C29, as claimed: every message pair stored in a conversation comes from a
\* query of the conversation's recorded chatbotType; the step in which a
\* query's pair is stored is the step of a query of that scope.
C29_ConversationScope ==
  [][\A q \in DOMAIN queries :
       (queries'[q].saved /\ ~queries[q].saved) =>
         conversations'[queries[q].sessionId].chatbotType = queries[q].chatbotType]_vars


\* The transcript holds the pair of request q: its user message followed by
\* its assistant message.
HasPairOf(messages, q) ==
  \E i \in 1..(Len(messages) - 1) :
    /\ messages[i].sender = "user" /\ messages[i].text = queries[q].message
    /\ messages[i + 1].sender = "ai" /\ messages[i + 1].text = queries[q].response

\* C30, as claimed: when two queries of one sessionId, handled concurrently,
\* were both answered with success, there is a conversation for the
\* sessionId and its transcript holds the pair of both, two more pairs than
\* before, also when neither found a conversation.
C30_ConcurrentQueriesBothStored ==
  \A p, q \in DOMAIN queries :
    (p < q /\ queries[p].pc = "done" /\ queries[q].pc = "done"
       /\ queries[p].resp.code = 200 /\ queries[q].resp.code = 200
       /\ queries[p].sessionId # "" /\ queries[p].sessionId = queries[q].sessionId) =>
      /\ queries[p].sessionId \in DOMAIN conversations
      /\ LET messages == conversations[queries[p].sessionId].messages
         IN /\ HasPairOf(messages, p) /\ HasPairOf(messages, q)
            /\ Len(messages) >= 4

====
